---- MODULE Spec2Model ----
(***************************************************************************)
(* Model of the NANOREM MLM core: the partner network with structural      *)
(* compression (src/core/network.py) and the commission calculator with    *)
(* per-transaction compression (src/core/commission.py).                   *)
(*                                                                         *)
(* SpecNet      - NetworkManager under arbitrary sequences of add_partner, *)
(*                deactivate_partner and reactivate_partner calls.         *)
(* SpecPurchase - one calculate_purchase_commissions call, over every      *)
(*                chain, on a calculator that has served earlier purchases.*)
(* SpecCalc     - CommissionCalculator under arbitrary sequences of        *)
(*                calculate_purchase_commissions, approve_commission and   *)
(*                mark_as_paid calls.                                      *)
(* SpecThreads  - two threads inside calculate_purchase_commissions on one *)
(*                calculator, interleaved at its shared reads and writes.  *)
(* SpecLine     - a purchase processed as get_upline_chain followed by     *)
(*                calculate_purchase_commissions, on a deep line of        *)
(*                sponsors with every activity pattern.                    *)
(* SpecExpiry   - the subscription manager's status expiry job             *)
(*                (src/core/subscription_manager.py) next to the network.  *)
(* SpecCompress - SpecNet with every deactivate_partner call compressing.  *)
(* SpecManager  - PartnerManager (src/core/partner_manager.py) attached to *)
(*                a NetworkManager: register_partner and update_status.    *)
(***************************************************************************)
EXTENDS Integers, Sequences, FiniteSets, TLC

\* ------------------------------------------------------------------------
\* Bounds of the model
\* ------------------------------------------------------------------------

\* Partner ids handed to the NetworkManager are 1..NumPartners.
NumPartners == 3

\* Longest upline chain handed to a single purchase (SpecPurchase).
MaxChainLen == 6

\* Purchases already served by the calculator before that purchase.
MaxPrior == 1

\* Longest upline chain in a sequence of calculator calls (SpecCalc).
MaxSeqChainLen == 2

\* SpecCalc stops starting purchases once this many ids have been issued.
MaxIssued == 2

\* Partners in the longest line of sponsors (SpecLine).
MaxLine == 7

\* ------------------------------------------------------------------------
\* Program constants
\* ------------------------------------------------------------------------

\* Python's None for Optional[int] ids; partner ids are positive.
None == 0

\* network.py: MAX_LEVELS = 5 (default max_levels of get_upline_chain)
NET_MAX_LEVELS == 5

\* commission.py: MAX_LEVELS = 5
MAX_LEVELS == 5

\* Mutant: level 5 pays 10%.
DefaultRatesLevel5Ten == (1 :> 20) @@ (2 :> 10) @@ (3 :> 5) @@ (4 :> 5) @@ (5 :> 10)

\* commission.py: DEFAULT_COMMISSION_RATES, level -> percent
DEFAULT_COMMISSION_RATES == (1 :> 20) @@ (2 :> 10) @@ (3 :> 5) @@ (4 :> 5) @@ (5 :> 5)

PartnerIds == 1..NumPartners

VARIABLES
    nodes,      \* NetworkManager._nodes : partner_id -> PartnerNode
    hung,       \* TRUE once a call has entered a loop that never exits
    last,       \* the last network call: its name, arguments, result and log
    commission_rates,       \* CommissionCalculator.commission_rates
    commissions,            \* CommissionCalculator.commissions
    next_commission_id,     \* CommissionCalculator._next_commission_id
    out,        \* the last calculator call: its name, arguments, result, log
    threads,    \* per thread: position and locals inside a concurrent call
    db_partners,\* rows of the 'partners' table: status, subscription_end_date
    partners    \* PartnerManager.partners : partner_id -> Partner

netVars == <<nodes, hung, last>>
calcVars == <<commission_rates, commissions, next_commission_id, out, threads>>
dbVars == <<db_partners>>
mgrVars == <<partners>>
vars == <<nodes, hung, last, commission_rates, commissions,
          next_commission_id, out, threads, db_partners, partners>>

\* ------------------------------------------------------------------------
\* NetworkManager (src/core/network.py)
\* ------------------------------------------------------------------------

\* PartnerNode(partner_id, upline_id=None, is_active=True, downline_ids=[])
PartnerNode(partner_id, upline_id) ==
    [partner_id   |-> partner_id,
     upline_id    |-> upline_id,
     is_active    |-> TRUE,
     downline_ids |-> <<>>]

\* d[k] = v on a dict: k is added when absent, overwritten when present.
DictSet(d, k, v) == [x \in (DOMAIN d) \cup {k} |-> IF x = k THEN v ELSE d[x]]

\* self._nodes[pid].downline_ids.append(child)
AppendDownline(n, pid, child) ==
    [n EXCEPT ![pid].downline_ids = Append(@, child)]

\* Mutant: the new node is not appended to its upline's downline_ids.
AddPartnerNoAppend(n, partner_id, upline_id) ==
    LET n1 == IF upline_id # None /\ upline_id \notin DOMAIN n
              THEN DictSet(n, upline_id, PartnerNode(upline_id, None))
              ELSE n
    IN  DictSet(n1, partner_id, PartnerNode(partner_id, upline_id))

\* Mutant: a missing upline is not auto-registered; the node still names it.
AddPartnerNoAutoRegister(n, partner_id, upline_id) ==
    LET n2 == DictSet(n, partner_id, PartnerNode(partner_id, upline_id))
    IN  IF upline_id # None /\ upline_id \in DOMAIN n2
        THEN AppendDownline(n2, upline_id, partner_id)
        ELSE n2

\* The state add_partner leaves when partner_id is new: the upline is
\* auto-registered as a root when missing, the node is stored (replacing any
\* node of that id), then it is appended to the upline's downline_ids.
AddPartnerNodes(n, partner_id, upline_id) ==
    LET n1 == IF upline_id # None /\ upline_id \notin DOMAIN n
              THEN DictSet(n, upline_id, PartnerNode(upline_id, None))
              ELSE n
        n2 == DictSet(n1, partner_id, PartnerNode(partner_id, upline_id))
    IN  IF upline_id # None THEN AppendDownline(n2, upline_id, partner_id)
        ELSE n2

\* Outcome of a walk: the value it returns, or that it never returns.
Returns(v) == [returns |-> TRUE, value |-> v]
Diverges == [returns |-> FALSE, value |-> None]

\* The while loop of _find_nearest_active_upline from `current`.  The walk
\* reads an unchanging graph, so once it has stepped over more inactive nodes
\* than there are nodes it is on a cycle of inactive nodes and never returns:
\* `fuel` counts the steps left before that is certain.
RECURSIVE WalkUp(_, _, _)
WalkUp(n, current, fuel) ==
    IF current = None THEN Returns(None)
    ELSE IF n[current].is_active THEN Returns(current)
    ELSE IF fuel = 0 THEN Diverges
    ELSE WalkUp(n, n[current].upline_id, fuel - 1)

\* Mutant: the direct upline is taken whether or not it is active.
FindDirectUpline(n, partner_id) == Returns(n[partner_id].upline_id)

_find_nearest_active_upline(n, partner_id) ==
    WalkUp(n, n[partner_id].upline_id, Cardinality(DOMAIN n))

\* The for loop of _compress_upward over node.downline_ids, from index i.
RECURSIVE ReparentFrom(_, _, _, _)
ReparentFrom(n, children, i, new_upline_id) ==
    IF i > Len(children) THEN n
    ELSE LET child_id == children[i]
             n1 == [n EXCEPT ![child_id].upline_id = new_upline_id]
             n2 == IF new_upline_id # None
                   THEN AppendDownline(n1, new_upline_id, child_id)
                   ELSE n1
         IN  ReparentFrom(n2, children, i + 1, new_upline_id)

\* Mutant: the children are listed under the new upline but keep their
\* upline_id.
RECURSIVE ListUnderFrom(_, _, _, _)
ListUnderFrom(n, children, i, new_upline_id) ==
    IF i > Len(children) THEN n
    ELSE ListUnderFrom(IF new_upline_id # None
                       THEN AppendDownline(n, new_upline_id, children[i])
                       ELSE n,
                       children, i + 1, new_upline_id)
CompressWithoutDetach(n, inactive_partner_id, new_upline_id) ==
    LET moved == ListUnderFrom(n, n[inactive_partner_id].downline_ids, 1,
                               new_upline_id)
    IN  [moved EXCEPT ![inactive_partner_id].downline_ids = <<>>]

\* Mutant: the inactive partner is detached from its own upline as well.
CompressDetachingSelf(n, inactive_partner_id, new_upline_id) ==
    LET moved == ReparentFrom(n, n[inactive_partner_id].downline_ids, 1,
                              new_upline_id)
    IN  [moved EXCEPT ![inactive_partner_id].downline_ids = <<>>,
                      ![inactive_partner_id].upline_id = None]

\* Mutant: the inactive partner's downline_ids is not cleared.
CompressKeepingDownline(n, inactive_partner_id, new_upline_id) ==
    ReparentFrom(n, n[inactive_partner_id].downline_ids, 1, new_upline_id)

\* _compress_upward once the new upline is known.
_compress_upward(n, inactive_partner_id, new_upline_id) ==
    LET moved == ReparentFrom(n, n[inactive_partner_id].downline_ids, 1,
                              new_upline_id)
    IN  [moved EXCEPT ![inactive_partner_id].downline_ids = <<>>]

\* get_upline_chain: the while loop from current_id with the chain so far.
RECURSIVE ChainFrom(_, _, _, _)
ChainFrom(n, current_id, chain, max_levels) ==
    IF current_id = None \/ Len(chain) >= max_levels THEN chain
    ELSE IF current_id \notin DOMAIN n THEN chain
    ELSE ChainFrom(n, n[current_id].upline_id,
                   Append(chain, <<current_id, n[current_id].is_active>>),
                   max_levels)

get_upline_chain(n, partner_id, max_levels) ==
    IF partner_id \notin DOMAIN n THEN <<>>
    ELSE ChainFrom(n, n[partner_id].upline_id, <<>>, max_levels)

\* get_all_partner_ids / get_active_partner_ids
get_all_partner_ids(n) == DOMAIN n
get_active_partner_ids(n) == {pid \in DOMAIN n : n[pid].is_active}

\* ------------------------------------------------------------------------
\* CommissionCalculator (src/core/commission.py)
\* ------------------------------------------------------------------------

\* Money is held in hundredths of a currency unit, so that every
\* base * rate / 100 of the model is exact, as Decimal arithmetic is.
\* Decimal(str(purchase_amount)) for a purchase of whole units:
ToDecimal(purchase_amount) == purchase_amount * 100

\* Mutant: records are created already approved.
CommissionRecordApproved(commission_id, partner_id, source_partner_id, level, amount, base_amount, rate, compressed, notes) ==
    [commission_id     |-> commission_id,
     partner_id        |-> partner_id,
     source_partner_id |-> source_partner_id,
     level             |-> level,
     amount            |-> amount,
     base_amount       |-> base_amount,
     rate              |-> rate,
     status            |-> "approved",
     compressed        |-> compressed,
     notes             |-> notes]

\* CommissionRecord(...); status defaults to 'pending'.  The timestamp
\* (datetime.now) is left out: no operation reads it back into the state.
CommissionRecord(commission_id, partner_id, source_partner_id, level, amount, base_amount, rate, compressed, notes) ==
    [commission_id     |-> commission_id,
     partner_id        |-> partner_id,
     source_partner_id |-> source_partner_id,
     level             |-> level,
     amount            |-> amount,
     base_amount       |-> base_amount,
     rate              |-> rate,
     status            |-> "pending",
     compressed        |-> compressed,
     notes             |-> notes]

\* Mutant: the product is not divided by 100.
CommissionAmountNoDivide(base, rate) == base * rate

\* amount = base * rate / Decimal('100')
CommissionAmount(base, rate) == (base * rate) \div 100

\* notes="compressed upward" if compressed else None
NotesFor(compressed) == IF compressed THEN "compressed upward" ELSE "None"

\* Mutant: a level missing from the table falls back to the default rate.
MakeRecordDefaultRate(rates, next_id, base, partner_id, source_id, level, compressed) ==
    LET rate == IF level \in DOMAIN rates THEN rates[level]
                ELSE DEFAULT_COMMISSION_RATES[level]
    IN  [made |-> << CommissionRecord(next_id, partner_id, source_id, level,
                                      CommissionAmount(base, rate), base, rate,
                                      compressed, NotesFor(compressed)) >>,
         next_id |-> next_id + 1]

\* Mutant: the id is consumed before the rate lookup.
MakeRecordConsumingId(rates, next_id, base, partner_id, source_id, level, compressed) ==
    IF level \notin DOMAIN rates
    THEN [made |-> <<>>, next_id |-> next_id + 1]
    ELSE [made |-> << CommissionRecord(next_id, partner_id, source_id, level,
                                       CommissionAmount(base, rates[level]),
                                       base, rates[level], compressed,
                                       NotesFor(compressed)) >>,
          next_id |-> next_id + 1]

\* _make_record: the record made (none when the level has no rate) and the
\* value of _next_commission_id it leaves.
_make_record(rates, next_id, base, partner_id, source_id, level, compressed) ==
    IF level \notin DOMAIN rates
    THEN [made |-> <<>>, next_id |-> next_id]
    ELSE [made |-> << CommissionRecord(next_id, partner_id, source_id, level,
                                       CommissionAmount(base, rates[level]),
                                       base, rates[level], compressed,
                                       NotesFor(compressed)) >>,
          next_id |-> next_id + 1]

\* Mutant: the search consumes one entry beyond the beneficiary it found.
RECURSIVE FindNextActiveSkippingOne(_, _)
FindNextActiveSkippingOne(upline_chain, chain_index) ==
    IF ~(chain_index < Len(upline_chain))
    THEN [found |-> FALSE, next_id |-> None, chain_index |-> chain_index]
    ELSE IF upline_chain[chain_index + 1][2]
         THEN [found |-> TRUE, next_id |-> upline_chain[chain_index + 1][1],
               chain_index |-> chain_index + 2]
         ELSE FindNextActiveSkippingOne(upline_chain, chain_index + 1)

\* Mutant: the beneficiary found is not consumed (chain_index is left on it).
RECURSIVE FindNextActiveNoConsume(_, _)
FindNextActiveNoConsume(upline_chain, chain_index) ==
    IF ~(chain_index < Len(upline_chain))
    THEN [found |-> FALSE, next_id |-> None, chain_index |-> chain_index]
    ELSE IF upline_chain[chain_index + 1][2]
         THEN [found |-> TRUE, next_id |-> upline_chain[chain_index + 1][1],
               chain_index |-> chain_index]
         ELSE FindNextActiveNoConsume(upline_chain, chain_index + 1)

\* Mutant: the next entry is taken without testing next_active.
FindNextAny(upline_chain, chain_index) ==
    IF ~(chain_index < Len(upline_chain))
    THEN [found |-> FALSE, next_id |-> None, chain_index |-> chain_index]
    ELSE [found |-> TRUE, next_id |-> upline_chain[chain_index + 1][1],
          chain_index |-> chain_index + 1]

\* The inner while loop: scan upline_chain from chain_index (0-based) for an
\* active entry, consuming every entry read.
RECURSIVE FindNextActive(_, _)
FindNextActive(upline_chain, chain_index) ==
    IF ~(chain_index < Len(upline_chain))
    THEN [found |-> FALSE, next_id |-> None, chain_index |-> chain_index]
    ELSE IF upline_chain[chain_index + 1][2]
         THEN [found |-> TRUE, next_id |-> upline_chain[chain_index + 1][1],
               chain_index |-> chain_index + 1]
         ELSE FindNextActive(upline_chain, chain_index + 1)

\* Mutant: the level is not advanced.
NextLevelStuck(structural_level) == structural_level

\* structural_level += 1
NextLevel(structural_level) == structural_level + 1

\* Mutant: the record is stored at the front of self.commissions.
EmitStoringFirst(c, m) ==
    [c EXCEPT !.commissions = m.made \o @,
              !.calculated = @ \o m.made,
              !.next_commission_id = m.next_id]

\* if record: calculated.append(record); self.commissions.append(record)
Emit(c, m) ==
    [c EXCEPT !.commissions = @ \o m.made,
              !.calculated = @ \o m.made,
              !.next_commission_id = m.next_id]

\* The outer while loop from (structural_level, chain_index).  c carries
\* self.commissions, self._next_commission_id, the local list `calculated`
\* and `unpaid`, the levels of the "no active upline found" warnings.
RECURSIVE PurchaseLoop(_, _, _, _, _, _, _)
PurchaseLoop(c, rates, base, buying_partner_id, upline_chain, structural_level, chain_index) ==
    IF ~(structural_level <= MAX_LEVELS /\ chain_index < Len(upline_chain))
    THEN c
    ELSE
      LET partner_id == upline_chain[chain_index + 1][1]
          is_active  == upline_chain[chain_index + 1][2]
          ci         == chain_index + 1
      IN  IF ~is_active
          THEN LET s == FindNextActive(upline_chain, ci)
                   c1 == IF s.found
                         THEN Emit(c, _make_record(rates, c.next_commission_id,
                                       base, s.next_id, buying_partner_id,
                                       structural_level, TRUE))
                         ELSE [c EXCEPT !.unpaid = Append(@, structural_level)]
               IN  PurchaseLoop(c1, rates, base, buying_partner_id,
                                upline_chain, NextLevel(structural_level),
                                s.chain_index)
          ELSE PurchaseLoop(
                   Emit(c, _make_record(rates, c.next_commission_id, base,
                            partner_id, buying_partner_id, structural_level,
                            FALSE)),
                   rates, base, buying_partner_id, upline_chain,
                   NextLevel(structural_level), ci)

\* Mutant: the list returned is the stored list itself.
CalculateReturningStored(rates, cs, next_id, purchase_amount, buying_partner_id, upline_chain) ==
    PurchaseLoop([commissions |-> cs, next_commission_id |-> next_id,
                  calculated |-> cs, unpaid |-> <<>>],
                 rates, ToDecimal(purchase_amount), buying_partner_id,
                 upline_chain, 1, 0)

\* calculate_purchase_commissions on a calculator with the given rates,
\* stored commissions cs and next id: what it leaves and returns.
calculate_purchase_commissions(rates, cs, next_id, purchase_amount, buying_partner_id, upline_chain) ==
    PurchaseLoop([commissions |-> cs, next_commission_id |-> next_id,
                  calculated |-> <<>>, unpaid |-> <<>>],
                 rates, ToDecimal(purchase_amount), buying_partner_id,
                 upline_chain, 1, 0)

\* Mutant: when no record has the id, the last record is taken.
FirstWithIdOrLast(cs, commission_id) ==
    LET hits == {i \in 1..Len(cs) : cs[i].commission_id = commission_id}
    IN  IF hits = {} THEN Len(cs) ELSE CHOOSE i \in hits : \A j \in hits : i <= j

\* for c in self.commissions: if c.commission_id == commission_id: the index
\* (1-based) of the first match, 0 when the loop finds none.
FirstWithId(cs, commission_id) ==
    LET hits == {i \in 1..Len(cs) : cs[i].commission_id = commission_id}
    IN  IF hits = {} THEN 0 ELSE CHOOSE i \in hits : \A j \in hits : i <= j

\* Mutant: a record marked paid is taken out of the collection.
SetStatusRemovingPaid(cs, commission_id, status) ==
    LET i == FirstWithId(cs, commission_id)
    IN  IF i = 0 THEN cs
        ELSE IF status = "paid"
             THEN SubSeq(cs, 1, i - 1) \o SubSeq(cs, i + 1, Len(cs))
             ELSE [cs EXCEPT ![i].status = status]

\* c.status = status on the first record with that id.
SetStatus(cs, commission_id, status) ==
    LET i == FirstWithId(cs, commission_id)
    IN  IF i = 0 THEN cs ELSE [cs EXCEPT ![i].status = status]

\* What a calculator call leaves in `out`.
CalcCall(op, purchase_amount, buying_partner_id, upline_chain, commission_id, result, unpaid) ==
    [op |-> op, purchase_amount |-> purchase_amount,
     buying_partner_id |-> buying_partner_id, upline_chain |-> upline_chain,
     commission_id |-> commission_id, ret |-> result, unpaid |-> unpaid]

NoCalcCall == CalcCall("__init__", 0, None, <<>>, None, <<>>, <<>>)

\* What a call leaves in `last`.
Call(op, partner_id, arg, result, log) ==
    [op |-> op, partner_id |-> partner_id, arg |-> arg, ret |-> result,
     log |-> log]

\* The outcome of a NetworkManager call on the graph n: the graph it
\* leaves, whether it returns, the value it returns and the lines it logs.
Outcome(n, returns, result, log) ==
    [nodes |-> n, returns |-> returns, ret |-> result, log |-> log]

\* add_partner on the graph n.
AddPartner(n, partner_id, upline_id) ==
    IF partner_id \in DOMAIN n
    THEN Outcome(n, TRUE, FALSE, <<>>)
    ELSE Outcome(AddPartnerNodes(n, partner_id, upline_id), TRUE, TRUE, <<>>)

\* deactivate_partner on the graph n.  `log` lists the "Compression: partner
\* c re-parented / became root" lines as <<child, new upline>>.  When the
\* upward walk never returns, the call has set is_active and then hangs: it
\* does not return and delivers no result.
DeactivatePartner(n, partner_id, compress) ==
    IF partner_id \notin DOMAIN n
    THEN Outcome(n, TRUE, FALSE, <<>>)
    ELSE LET n1 == [n EXCEPT ![partner_id].is_active = FALSE]
             children == n1[partner_id].downline_ids
         IN  IF compress /\ children # <<>>
             THEN LET walk == _find_nearest_active_upline(n1, partner_id)
                      new_upline_id == walk.value
                  IN  IF ~walk.returns
                      THEN Outcome(n1, FALSE, FALSE, <<>>)
                      ELSE Outcome(_compress_upward(n1, partner_id,
                                                    new_upline_id),
                                   TRUE, TRUE,
                                   [i \in 1..Len(children) |->
                                        <<children[i], new_upline_id>>])
             ELSE Outcome(n1, TRUE, TRUE, <<>>)

\* reactivate_partner on the graph n.
ReactivatePartner(n, partner_id) ==
    IF partner_id \notin DOMAIN n
    THEN Outcome(n, TRUE, FALSE, <<>>)
    ELSE Outcome([n EXCEPT ![partner_id].is_active = TRUE], TRUE, TRUE, <<>>)

\* A call made while no call hangs leaves its outcome in the state: hung
\* becomes TRUE when it never returns, and no further call is made.
Delivered(op, partner_id, arg, r) ==
    /\ nodes' = r.nodes
    /\ hung' = ~r.returns
    /\ last' = Call(op, partner_id, arg, r.ret, r.log)

\* Mutant: the missing upline is auto-registered before the duplicate test.
AddPartnerRepairFirst(partner_id, upline_id) ==
    /\ ~hung
    /\ LET n1 == IF upline_id # None /\ upline_id \notin DOMAIN nodes
                 THEN DictSet(nodes, upline_id, PartnerNode(upline_id, None))
                 ELSE nodes
       IN  IF partner_id \in DOMAIN n1
           THEN /\ nodes' = n1
                /\ last' = Call("add_partner", partner_id, upline_id, FALSE, <<>>)
           ELSE /\ nodes' = AddPartnerNodes(n1, partner_id, upline_id)
                /\ last' = Call("add_partner", partner_id, upline_id, TRUE, <<>>)
    /\ UNCHANGED hung
    /\ UNCHANGED <<calcVars, dbVars, mgrVars>>

add_partner(partner_id, upline_id) ==
    /\ ~hung
    /\ Delivered("add_partner", partner_id, upline_id,
                 AddPartner(nodes, partner_id, upline_id))
    /\ UNCHANGED <<calcVars, dbVars, mgrVars>>

\* Mutant: deactivation deletes the node.
DeactivateRemovingNode(partner_id, compress) ==
    /\ ~hung
    /\ IF partner_id \notin DOMAIN nodes
       THEN /\ nodes' = nodes
            /\ last' = Call("deactivate_partner", partner_id, compress,
                            FALSE, <<>>)
       ELSE /\ nodes' = [q \in DOMAIN nodes \ {partner_id} |-> nodes[q]]
            /\ last' = Call("deactivate_partner", partner_id, compress,
                            TRUE, <<>>)
    /\ UNCHANGED hung
    /\ UNCHANGED <<calcVars, dbVars, mgrVars>>

\* Mutant: the compress argument is ignored (children are always moved).
DeactivateAlwaysCompressing(partner_id, compress) ==
    /\ ~hung
    /\ IF partner_id \notin DOMAIN nodes
       THEN /\ UNCHANGED <<nodes, hung>>
            /\ last' = Call("deactivate_partner", partner_id, compress,
                            FALSE, <<>>)
       ELSE LET n1 == [nodes EXCEPT ![partner_id].is_active = FALSE]
                children == n1[partner_id].downline_ids
                walk == _find_nearest_active_upline(n1, partner_id)
            IN  IF children # <<>> /\ ~walk.returns
                THEN /\ nodes' = n1
                     /\ hung' = TRUE
                     /\ last' = Call("deactivate_partner", partner_id,
                                     compress, FALSE, <<>>)
                ELSE /\ nodes' = IF children # <<>>
                                 THEN _compress_upward(n1, partner_id,
                                                       walk.value)
                                 ELSE n1
                     /\ hung' = hung
                     /\ last' = Call("deactivate_partner", partner_id,
                                     compress, TRUE, <<>>)
    /\ UNCHANGED <<calcVars, dbVars, mgrVars>>

deactivate_partner(partner_id, compress) ==
    /\ ~hung
    /\ Delivered("deactivate_partner", partner_id, compress,
                 DeactivatePartner(nodes, partner_id, compress))
    /\ UNCHANGED <<calcVars, dbVars, mgrVars>>

\* Mutant: reactivating an unknown partner registers it as a root.
ReactivateUpsert(partner_id) ==
    /\ ~hung
    /\ IF partner_id \notin DOMAIN nodes
       THEN nodes' = DictSet(nodes, partner_id, PartnerNode(partner_id, None))
       ELSE nodes' = [nodes EXCEPT ![partner_id].is_active = TRUE]
    /\ last' = Call("reactivate_partner", partner_id, None, TRUE, <<>>)
    /\ UNCHANGED hung
    /\ UNCHANGED <<calcVars, dbVars, mgrVars>>

\* Mutant: reactivation stores a new PartnerNode for the partner.
ReactivateResettingNode(partner_id) ==
    /\ ~hung
    /\ IF partner_id \notin DOMAIN nodes
       THEN /\ nodes' = nodes
            /\ last' = Call("reactivate_partner", partner_id, None, FALSE,
                            <<>>)
       ELSE /\ nodes' = [nodes EXCEPT ![partner_id] =
                            PartnerNode(partner_id, nodes[partner_id].upline_id)]
            /\ last' = Call("reactivate_partner", partner_id, None, TRUE,
                            <<>>)
    /\ UNCHANGED hung
    /\ UNCHANGED <<calcVars, dbVars, mgrVars>>

reactivate_partner(partner_id) ==
    /\ ~hung
    /\ Delivered("reactivate_partner", partner_id, None,
                 ReactivatePartner(nodes, partner_id))
    /\ UNCHANGED <<calcVars, dbVars, mgrVars>>

\* No rows in the 'partners' table.
NoDatabase == db_partners = << >>

\* No PartnerManager, or one with no partner registered.
NoManager == partners = << >>

\* NetworkManager.__init__: no nodes.
NoNetCall == Call("__init__", None, None, TRUE, <<>>)

InitNet ==
    /\ nodes = << >>
    /\ hung = FALSE
    /\ last = NoNetCall
    /\ commission_rates = DEFAULT_COMMISSION_RATES
    /\ commissions = <<>>
    /\ next_commission_id = 1
    /\ out = NoCalcCall
    /\ threads = << >>
    /\ NoDatabase
    /\ NoManager

NextNet ==
    \/ \E p \in PartnerIds, u \in PartnerIds \cup {None} : add_partner(p, u)
    \/ \E p \in PartnerIds, c \in BOOLEAN : deactivate_partner(p, c)
    \/ \E p \in PartnerIds : reactivate_partner(p)

SpecNet == InitNet /\ [][NextNet]_vars

\* ------------------------------------------------------------------------
\* Calculator calls
\* ------------------------------------------------------------------------

\* Purchase amounts, in whole currency units.
Amounts == {0, 1, 1000}

\* Buyers: the buyer's id is only copied into the records.
Buyers == {8, 9}

\* In a sequence of calls every purchase is of 1000 by buyer 9.
SeqAmounts == {1000}
SeqBuyers == {9}

\* Rate tables a calculator is constructed with: the default, and one that
\* has no entry for level 2.
NoLevel2Rates == (1 :> 20) @@ (3 :> 5) @@ (4 :> 5) @@ (5 :> 5)
RateTables == {DEFAULT_COMMISSION_RATES, NoLevel2Rates}

\* A plan of six levels, for the calls that take one purchase at a time.
SixLevelRates == (1 :> 20) @@ (2 :> 10) @@ (3 :> 5) @@ (4 :> 5) @@ (5 :> 5) @@ (6 :> 2)
PurchaseRateTables == RateTables \cup {SixLevelRates}

\* Upline chains of up to maxlen entries with every activity pattern.  Ids
\* take the shapes get_upline_chain produces, up to renaming: distinct
\* ancestors 1, 2, ... up to position m, the m-th repeated from there on
\* (m = n: all distinct; m < n: a node that is its own upline).
ChainIdAt(i, m) == IF i < m THEN i ELSE m
ChainsOfLen(n) ==
    IF n = 0 THEN { <<>> }
    ELSE {[i \in 1..n |-> <<ChainIdAt(i, m), act[i]>>] :
             act \in [1..n -> BOOLEAN], m \in 1..n}
Chains(maxlen) == UNION {ChainsOfLen(n) : n \in 0..maxlen}

calculate(purchase_amount, buying_partner_id, upline_chain) ==
    LET r == calculate_purchase_commissions(commission_rates, commissions,
                 next_commission_id, purchase_amount, buying_partner_id,
                 upline_chain)
    IN  /\ commissions' = r.commissions
        /\ next_commission_id' = r.next_commission_id
        /\ out' = CalcCall("calculate_purchase_commissions", purchase_amount,
                           buying_partner_id, upline_chain, None,
                           r.calculated, r.unpaid)
        /\ UNCHANGED commission_rates
        /\ UNCHANGED <<netVars, threads, dbVars, mgrVars>>

approve_commission(commission_id) ==
    /\ commissions' = SetStatus(commissions, commission_id, "approved")
    /\ out' = CalcCall("approve_commission", 0, None, <<>>, commission_id,
                       FirstWithId(commissions, commission_id) # 0, <<>>)
    /\ UNCHANGED <<commission_rates, next_commission_id>>
    /\ UNCHANGED <<netVars, threads, dbVars, mgrVars>>

mark_as_paid(commission_id) ==
    /\ commissions' = SetStatus(commissions, commission_id, "paid")
    /\ out' = CalcCall("mark_as_paid", 0, None, <<>>, commission_id,
                       FirstWithId(commissions, commission_id) # 0, <<>>)
    /\ UNCHANGED <<commission_rates, next_commission_id>>
    /\ UNCHANGED <<netVars, threads, dbVars, mgrVars>>

\* CommissionCalculator.__init__(commission_rates)
NewCalculator(rates) ==
    /\ commission_rates = rates
    /\ commissions = <<>>
    /\ next_commission_id = 1
    /\ out = NoCalcCall

NoNetwork ==
    /\ nodes = << >>
    /\ hung = FALSE
    /\ last = NoNetCall

NoThreads == threads = << >>

\* -- SpecCalc: sequences of calculator calls --------------------------------

InitCalc ==
    /\ NoNetwork
    /\ NoDatabase
    /\ NoManager
    /\ NoThreads
    /\ \E rates \in RateTables : NewCalculator(rates)

PurchaseCall ==
    /\ next_commission_id <= MaxIssued
    /\ \E a \in SeqAmounts, b \in SeqBuyers, ch \in Chains(MaxSeqChainLen) :
           calculate(a, b, ch)

ApproveCall == \E id \in 1..(MaxIssued + MaxSeqChainLen) : approve_commission(id)

MarkPaidCall == \E id \in 1..(MaxIssued + MaxSeqChainLen) : mark_as_paid(id)

NextCalc == PurchaseCall \/ ApproveCall \/ MarkPaidCall

SpecCalc == InitCalc /\ [][NextCalc]_vars

\* -- SpecPurchase: one purchase, every chain --------------------------------

\* The calculator after k earlier purchases of 1000 by buyer 9 under one
\* active upline 1.
RECURSIVE AfterPurchases(_, _)
AfterPurchases(rates, k) ==
    IF k = 0 THEN [commissions |-> <<>>, next_commission_id |-> 1]
    ELSE LET c == AfterPurchases(rates, k - 1)
         IN  calculate_purchase_commissions(rates, c.commissions,
                 c.next_commission_id, 1000, 9, << <<1, TRUE>> >>)

InitPurchase ==
    /\ NoNetwork
    /\ NoDatabase
    /\ NoManager
    /\ NoThreads
    /\ \E rates \in PurchaseRateTables, k \in 0..MaxPrior :
          /\ commission_rates = rates
          /\ commissions = AfterPurchases(rates, k).commissions
          /\ next_commission_id = AfterPurchases(rates, k).next_commission_id
          /\ out = NoCalcCall

Purchase ==
    /\ out = NoCalcCall
    /\ \E a \in Amounts, b \in Buyers, ch \in Chains(MaxChainLen) :
           calculate(a, b, ch)

NextPurchase == Purchase

SpecPurchase == InitPurchase /\ [][NextPurchase]_vars

\* -- SpecThreads: two concurrent calls on one calculator --------------------

\* The calculator takes no lock, so another thread may run between any two
\* reads or writes of self._next_commission_id and self.commissions.  A
\* thread's steps are cut at those accesses; work on locals joins the access
\* that follows it.
\*   "loop"  the while test, the entry read (and the forward search), then
\*           _make_record up to CommissionRecord(commission_id=
\*           self._next_commission_id, ...): the counter is read
\*   "load"  self._next_commission_id += 1 reads the counter
\*   "store" ... and writes it back incremented
\*   "append" calculated.append(record); self.commissions.append(record);
\*           structural_level += 1
\*   "done"  return calculated
Threads == {1, 2}

ThreadStart(purchase_amount, buying_partner_id, upline_chain) ==
    [pc |-> "loop", base |-> ToDecimal(purchase_amount),
     buying_partner_id |-> buying_partner_id, upline_chain |-> upline_chain,
     structural_level |-> 1, chain_index |-> 0, calculated |-> <<>>,
     record |-> <<>>, loaded |-> 0]

\* One pass of the while loop up to the record built by _make_record.
LoopStep(t) ==
    LET th == threads[t]
        chain == th.upline_chain
    IN  /\ th.pc = "loop"
        /\ UNCHANGED <<commissions, next_commission_id>>
        /\ IF ~(th.structural_level <= MAX_LEVELS /\ th.chain_index < Len(chain))
           THEN threads' = [threads EXCEPT ![t].pc = "done"]
           ELSE LET ci == th.chain_index + 1
                    is_active == chain[th.chain_index + 1][2]
                    s == IF is_active
                         THEN [found |-> TRUE,
                               next_id |-> chain[th.chain_index + 1][1],
                               chain_index |-> ci]
                         ELSE FindNextActive(chain, ci)
                    m == _make_record(commission_rates, next_commission_id,
                             th.base, s.next_id, th.buying_partner_id,
                             th.structural_level, ~is_active)
                IN  IF s.found /\ m.made # <<>>
                    THEN threads' = [threads EXCEPT
                                       ![t].chain_index = s.chain_index,
                                       ![t].record = m.made,
                                       ![t].pc = "load"]
                    ELSE threads' = [threads EXCEPT
                                       ![t].chain_index = s.chain_index,
                                       ![t].structural_level = NextLevel(@)]

LoadStep(t) ==
    /\ threads[t].pc = "load"
    /\ threads' = [threads EXCEPT ![t].loaded = next_commission_id,
                                  ![t].pc = "store"]
    /\ UNCHANGED <<commissions, next_commission_id>>

StoreStep(t) ==
    /\ threads[t].pc = "store"
    /\ next_commission_id' = threads[t].loaded + 1
    /\ threads' = [threads EXCEPT ![t].pc = "append"]
    /\ UNCHANGED commissions

AppendStep(t) ==
    /\ threads[t].pc = "append"
    /\ commissions' = commissions \o threads[t].record
    /\ threads' = [threads EXCEPT ![t].calculated = @ \o threads[t].record,
                                  ![t].record = <<>>,
                                  ![t].structural_level = NextLevel(@),
                                  ![t].pc = "loop"]
    /\ UNCHANGED next_commission_id

ThreadLoop == \E t \in Threads : LoopStep(t) /\ UNCHANGED <<netVars, commission_rates, out, dbVars, mgrVars>>
ThreadLoad == \E t \in Threads : LoadStep(t) /\ UNCHANGED <<netVars, commission_rates, out, dbVars, mgrVars>>
ThreadStore == \E t \in Threads : StoreStep(t) /\ UNCHANGED <<netVars, commission_rates, out, dbVars, mgrVars>>
ThreadAppend == \E t \in Threads : AppendStep(t) /\ UNCHANGED <<netVars, commission_rates, out, dbVars, mgrVars>>

InitThreads ==
    /\ NoNetwork
    /\ NoDatabase
    /\ NoManager
    /\ \E rates \in RateTables : NewCalculator(rates)
    /\ \E c1, c2 \in Chains(MaxSeqChainLen) :
          threads = (1 :> ThreadStart(1000, 8, c1)) @@ (2 :> ThreadStart(1000, 9, c2))

NextThreads == ThreadLoop \/ ThreadLoad \/ ThreadStore \/ ThreadAppend

SpecThreads == InitThreads /\ [][NextThreads]_vars

\* -- SpecLine: a purchase under a deep line of sponsors ---------------------

\* The network after add_partner(1), add_partner(2, 1), ..., add_partner(d,
\* d - 1): partner i is sponsored by partner i - 1.
RECURSIVE LineOf(_)
LineOf(d) ==
    IF d = 0 THEN << >>
    ELSE AddPartnerNodes(LineOf(d - 1), d, IF d = 1 THEN None ELSE d - 1)

\* ... followed by deactivate_partner(p, compress=False) for each p in
\* inactive: only is_active changes (network.py:106).
LineNetwork(d, inactive) ==
    [p \in DOMAIN LineOf(d) |->
        [LineOf(d)[p] EXCEPT !.is_active = (p \notin inactive)]]

InitLine ==
    /\ NoThreads
    /\ NoDatabase
    /\ NoManager
    /\ NewCalculator(DEFAULT_COMMISSION_RATES)
    /\ hung = FALSE
    /\ last = NoNetCall
    /\ \E d \in 0..MaxLine : \E inactive \in SUBSET (1..d) :
          nodes = LineNetwork(d, inactive)

\* One purchase by a registered partner: the upline chain is taken with the
\* default max_levels and handed to the calculator.
PurchaseBy(buying_partner_id) ==
    /\ out = NoCalcCall
    /\ buying_partner_id \in DOMAIN nodes
    /\ \E a \in SeqAmounts :
          calculate(a, buying_partner_id,
                    get_upline_chain(nodes, buying_partner_id, NET_MAX_LEVELS))

NextLine == \E b \in 1..MaxLine : PurchaseBy(b)

SpecLine == InitLine /\ [][NextLine]_vars

\* -- SpecExpiry: the scheduled status expiry next to the network -----------

\* A row of the 'partners' table as the subscription manager reads it:
\* status is a PartnerStatus value, subscription_end_date is "None", or
\* "future" / "past" as it compares with datetime.utcnow().
PartnerRow(status, subscription_end_date) ==
    [status |-> status, subscription_end_date |-> subscription_end_date]

\* SubscriptionManager.activate_status(telegram_id): ACTIVE until now +
\* duration_days; an unknown partner changes nothing (returns False).
activate_status(telegram_id) ==
    /\ IF telegram_id \notin DOMAIN db_partners
       THEN db_partners' = db_partners
       ELSE db_partners' = [db_partners EXCEPT ![telegram_id] =
                                PartnerRow("active", "future")]
    /\ UNCHANGED <<netVars, calcVars, mgrVars>>

\* SubscriptionManager.renew_status(telegram_id): the end date is extended
\* or restarted from now, the status set to ACTIVE.
renew_status(telegram_id) ==
    /\ IF telegram_id \notin DOMAIN db_partners
       THEN db_partners' = db_partners
       ELSE db_partners' = [db_partners EXCEPT ![telegram_id] =
                                PartnerRow("active", "future")]
    /\ UNCHANGED <<netVars, calcVars, mgrVars>>

\* The rows selected by the query of check_and_expire_statuses.
ExpiredPartners(rows) ==
    {p \in DOMAIN rows : /\ rows[p].subscription_end_date # "None"
                         /\ rows[p].subscription_end_date = "past"
                         /\ rows[p].status = "active"}

\* SubscriptionManager.check_and_expire_statuses(), as run by
\* expire_statuses_job: every selected row becomes INACTIVE with no end date.
check_and_expire_statuses ==
    /\ db_partners' = [p \in DOMAIN db_partners |->
                          IF p \in ExpiredPartners(db_partners)
                          THEN PartnerRow("inactive", "None")
                          ELSE db_partners[p]]
    /\ UNCHANGED <<netVars, calcVars, mgrVars>>

\* Time passes: the end date of a row is reached.
EndDatePasses(p) ==
    /\ p \in DOMAIN db_partners
    /\ db_partners[p].subscription_end_date = "future"
    /\ db_partners' = [db_partners EXCEPT ![p].subscription_end_date = "past"]
    /\ UNCHANGED <<netVars, calcVars, mgrVars>>

\* A line of d partners, some of them deactivated (without compression),
\* each with a row whose status agrees with the network's is_active flag and
\* no end date.
InitExpiry ==
    /\ NoThreads
    /\ NoManager
    /\ NewCalculator(DEFAULT_COMMISSION_RATES)
    /\ hung = FALSE
    /\ last = NoNetCall
    /\ \E d \in 0..NumPartners : \E inactive \in SUBSET (1..d) :
          /\ nodes = LineNetwork(d, inactive)
          /\ db_partners = [p \in 1..d |->
                               PartnerRow(IF p \in inactive THEN "inactive"
                                          ELSE "active", "None")]

NextExpiry ==
    \/ \E p \in PartnerIds : activate_status(p)
    \/ \E p \in PartnerIds : renew_status(p)
    \/ \E p \in PartnerIds : EndDatePasses(p)
    \/ check_and_expire_statuses

SpecExpiry == InitExpiry /\ [][NextExpiry]_vars

\* ------------------------------------------------------------------------
\* Properties of the network
\* ------------------------------------------------------------------------

\* The node reached from x after k upline_id links (None once the top is
\* passed).
RECURSIVE UplineAfter(_, _, _)
UplineAfter(n, x, k) ==
    IF k = 0 \/ x = None THEN x
    ELSE UplineAfter(n, n[x].upline_id, k - 1)

\* The first active node among the proper ancestors of x, None when there is
\* none: the k-th ancestor for the least k at which it is active.
NearestActiveAncestor(n, x) ==
    LET hits == {k \in 1..Cardinality(DOMAIN n) :
                    /\ UplineAfter(n, x, k) # None
                    /\ n[UplineAfter(n, x, k)].is_active}
    IN  IF hits = {} THEN None
        ELSE UplineAfter(n, x, CHOOSE k \in hits : \A j \in hits : k <= j)

\* C1: after any sequence of add_partner, deactivate_partner and
\* reactivate_partner calls the upline relation is acyclic: from every
\* registered node, following upline_id reaches None without visiting a node
\* twice (so within as many links as there are nodes).
C1_UplineAcyclic ==
    \A p \in DOMAIN nodes :
        UplineAfter(nodes, p, Cardinality(DOMAIN nodes)) = None

\* C2: when deactivate_partner(X, compress=true) returns true, every partner
\* that had upline_id = X just before the call has, just after it, upline_id
\* equal to the nearest active proper ancestor of X (None when X has none),
\* and that ancestor, never X, heads its get_upline_chain.
C2_ChildrenMoveToNearestActive ==
    [][ (/\ last'.op = "deactivate_partner"
         /\ last'.arg = TRUE
         /\ last'.ret = TRUE
         /\ ~hung')
        => LET X == last'.partner_id
               A == NearestActiveAncestor(nodes, X)
           IN  \A C \in DOMAIN nodes :
                 nodes[C].upline_id = X =>
                   /\ nodes'[C].upline_id = A
                   /\ A # X
                   /\ LET chain == get_upline_chain(nodes', C, NET_MAX_LEVELS)
                      IN  IF A = None THEN chain = <<>>
                          ELSE chain # <<>> /\ chain[1][1] = A
      ]_vars

\* C2 witness: a compressing deactivation has returned true after moving a
\* child of X past X's inactive direct upline.
C2_Witness ==
    /\ ~hung
    /\ last.op = "deactivate_partner"
    /\ last.arg = TRUE
    /\ last.ret = TRUE
    /\ last.log # <<>>
    /\ nodes[last.partner_id].upline_id # None
    /\ ~nodes[nodes[last.partner_id].upline_id].is_active
    /\ nodes[last.log[1][1]].upline_id = last.log[1][2]

\* ------------------------------------------------------------------------
\* Properties of one purchase (SpecPurchase)
\* ------------------------------------------------------------------------

Purchased == out.op = "calculate_purchase_commissions"

\* The records of the last call, as <<partner_id, level, compressed>>.
Payouts(records) ==
    [i \in 1..Len(records) |->
        <<records[i].partner_id, records[i].level, records[i].compressed>>]

RECURSIVE SumAmounts(_)
SumAmounts(records) ==
    IF records = <<>> THEN 0
    ELSE Head(records).amount + SumAmounts(Tail(records))

\* The first active position of chain after position p; Len(chain) + 1 when
\* there is none.
FirstActiveAfter(chain, p) ==
    LET later == {j \in (p + 1)..Len(chain) : chain[j][2]}
    IN  IF later = {} THEN Len(chain) + 1
        ELSE CHOOSE j \in later : \A k \in later : j <= k

\* The position (1-based) of the chain entry that receives level l, and the
\* position read first for level l: level 1 starts at the head of the chain,
\* each later level right after the previous level's beneficiary.
RECURSIVE ReadAt(_, _)
BeneficiaryAt(chain, l) ==
    LET p == ReadAt(chain, l)
    IN  IF p > Len(chain) THEN p
        ELSE IF chain[p][2] THEN p
        ELSE FirstActiveAfter(chain, p)
ReadAt(chain, l) ==
    IF l = 1 THEN 1 ELSE BeneficiaryAt(chain, l - 1) + 1

\* The example chain [(A,active),(B,inactive),(C,active),(D,active)].
ScenarioA == << <<1, TRUE>>, <<2, FALSE>>, <<3, TRUE>>, <<4, TRUE>> >>

\* C3: within one call of calculate_purchase_commissions at most one record
\* is emitted for each structural level, whatever the chain.
C3_OneRecordPerLevel ==
    Purchased =>
        \A i, j \in 1..Len(out.ret) :
            i # j => out.ret[i].level # out.ret[j].level

\* C3 witness: a call on a chain longer than MAX_LEVELS that filled all
\* five levels, one of them by compression.
C3_Witness ==
    /\ Purchased
    /\ Len(out.upline_chain) > MAX_LEVELS
    /\ Len(out.ret) = MAX_LEVELS
    /\ \E i \in 1..Len(out.ret) : out.ret[i].compressed

\* C4: for every structural level that has a rate and whose first entry
\* exists: an active entry read directly receives that level's record with
\* compressed = false; when it is inactive, the first active entry later in
\* the chain receives the record for that same level with compressed = true;
\* the next level is read from the entry after the beneficiary.  On the
\* example chain with the default rates the payouts are level 1 to A, level 2
\* to C compressed, level 3 to D, and nothing for levels 4 and 5.
C4_CompressionPaysSameLevel ==
    Purchased =>
      LET chain == out.upline_chain
      IN  /\ \A l \in (1..MAX_LEVELS) \cap DOMAIN commission_rates :
               LET p == ReadAt(chain, l)
                   b == BeneficiaryAt(chain, l)
               IN  b <= Len(chain) =>
                     \E i \in 1..Len(out.ret) :
                         Payouts(out.ret)[i] = <<chain[b][1], l, ~chain[p][2]>>
          /\ (chain = ScenarioA /\ commission_rates = DEFAULT_COMMISSION_RATES)
               => Payouts(out.ret)
                    = << <<1, 1, FALSE>>, <<3, 2, TRUE>>, <<4, 3, FALSE>> >>

\* C4 witness: the example purchase has been calculated.
C4_Witness ==
    /\ Purchased
    /\ out.upline_chain = ScenarioA
    /\ commission_rates = DEFAULT_COMMISSION_RATES
    /\ out.purchase_amount = 1000
    /\ Len(out.ret) = 3

\* C5: with the default rate table, for a purchase amount P > 0 and any
\* chain, the amounts of the returned records sum to at most 45% of P, and to
\* exactly 45% of P only if five records, levels 1 to 5, were emitted.
C5_AtMost45Percent ==
    (/\ Purchased
     /\ commission_rates = DEFAULT_COMMISSION_RATES
     /\ out.purchase_amount > 0)
    => LET total == SumAmounts(out.ret)
           cap   == (ToDecimal(out.purchase_amount) * 45) \div 100
       IN  /\ total <= cap
           /\ total = cap =>
                /\ Len(out.ret) = 5
                /\ {out.ret[i].level : i \in 1..Len(out.ret)} = 1..5

\* C5 witness: a purchase that paid exactly 45%.
C5_Witness ==
    /\ Purchased
    /\ commission_rates = DEFAULT_COMMISSION_RATES
    /\ out.purchase_amount = 1000
    /\ SumAmounts(out.ret) = 45000
    /\ \E i \in 1..Len(out.ret) : out.ret[i].compressed

\* C6: a call on a chain with no active entry (the empty chain included)
\* returns no records and leaves the stored commissions and the next id as
\* they were; and whenever the forward search for an active entry exhausts
\* the chain at some level (the warning logged for that level), no record is
\* emitted for that level or any later one.
C6_NoActiveNoRecord ==
    [][ out'.op = "calculate_purchase_commissions" =>
          LET chain == out'.upline_chain
              exhausted == {l \in 1..MAX_LEVELS :
                               /\ ReadAt(chain, l) <= Len(chain)
                               /\ BeneficiaryAt(chain, l) > Len(chain)}
          IN  /\ (\A i \in 1..Len(chain) : ~chain[i][2]) =>
                    /\ out'.ret = <<>>
                    /\ commissions' = commissions
                    /\ next_commission_id' = next_commission_id
              /\ {out'.unpaid[i] : i \in 1..Len(out'.unpaid)} = exhausted
              /\ \A l \in exhausted : \A i \in 1..Len(out'.ret) :
                    out'.ret[i].level < l
      ]_vars

\* C6 witness: a calculator that already stores records has been called
\* with a non-empty chain of inactive entries only.
C6_Witness ==
    /\ Purchased
    /\ Len(out.upline_chain) >= 2
    /\ \A i \in 1..Len(out.upline_chain) : ~out.upline_chain[i][2]
    /\ out.ret = <<>>
    /\ out.unpaid = <<1>>
    /\ commissions # <<>>

\* ------------------------------------------------------------------------
\* Properties of sequences of calculator calls (SpecCalc)
\* ------------------------------------------------------------------------

\* C7: every status change of a stored record is one of pending->approved,
\* approved->paid or pending->paid.
C7_OnlyForwardStatusChanges ==
    [][ \A i \in 1..Len(commissions) :
          (i <= Len(commissions') /\ commissions'[i].status # commissions[i].status)
          => <<commissions[i].status, commissions'[i].status>> \in
                { <<"pending", "approved">>, <<"approved", "paid">>,
                  <<"pending", "paid">> }
      ]_vars

\* C8: every record is created with status 'pending', and a stored record
\* whose status is no longer 'pending' never becomes 'pending' again.
C8_NeverBackToPending ==
    [][ /\ Len(commissions') >= Len(commissions)
        /\ \A i \in 1..Len(commissions') :
             IF i <= Len(commissions)
             THEN commissions[i].status # "pending"
                    => commissions'[i].status # "pending"
             ELSE commissions'[i].status = "pending"
      ]_vars

\* C8 witness: a purchase has stored new records after an earlier record
\* was paid.
C8_Witness ==
    /\ Purchased
    /\ out.ret # <<>>
    /\ Len(commissions) > Len(out.ret)
    /\ commissions[1].status = "paid"

\* C10: across any sequence of calls the stored records, in order of
\* creation, carry the ids 1, 2, 3, ... (pairwise distinct, strictly
\* increasing, starting at 1) and no id is consumed without a record: the
\* next id is one more than the number of records.
C10_IdsCountRecords ==
    /\ \A i \in 1..Len(commissions) : commissions[i].commission_id = i
    /\ next_commission_id = Len(commissions) + 1

\* C10 witness: records are stored and the last call filled level 1 but
\* produced no record for level 2, which has no rate.
C10_Witness ==
    /\ Purchased
    /\ commission_rates = NoLevel2Rates
    /\ Len(commissions) >= 2
    /\ out.upline_chain = << <<1, TRUE>>, <<2, TRUE>> >>
    /\ Len(out.ret) = 1

\* ------------------------------------------------------------------------
\* Properties of concurrent calls (SpecThreads)
\* ------------------------------------------------------------------------

AllReturned == \A t \in Threads : threads[t].pc = "done"

\* C9: when two calls of calculate_purchase_commissions have run
\* concurrently on one calculator, under whatever interleaving, all emitted
\* records have distinct commission_ids and every returned record is in the
\* stored collection.
C9_ConcurrentCallsSafe ==
    (threads # << >> /\ AllReturned) =>
        /\ \A i, j \in 1..Len(commissions) :
              i # j => commissions[i].commission_id # commissions[j].commission_id
        /\ \A t \in Threads : \A k \in 1..Len(threads[t].calculated) :
              \E i \in 1..Len(commissions) :
                  commissions[i] = threads[t].calculated[k]

\* ------------------------------------------------------------------------
\* Properties of purchases taken from the network (SpecLine, SpecNet)
\* ------------------------------------------------------------------------

\* The proper ancestors of x: every node reached from x by upline_id links
\* (the walk stops at the top or at a node it has already met).
RECURSIVE AncestorsFrom(_, _, _)
AncestorsFrom(n, current, seen) ==
    IF current = None \/ current \in seen THEN seen
    ELSE AncestorsFrom(n, n[current].upline_id, seen \cup {current})

Ancestors(n, x) == AncestorsFrom(n, n[x].upline_id, {})

ActiveAncestors(n, x) == {a \in Ancestors(n, x) : n[a].is_active}

Min(a, b) == IF a <= b THEN a ELSE b

\* C11: a purchase by B processed as get_upline_chain(B), default
\* max_levels, then calculate_purchase_commissions pays as many levels as
\* min(5, number of active ancestors of B).
C11_PaysEveryActiveAncestor ==
    Purchased =>
        Len(out.ret) = Min(MAX_LEVELS,
                           Cardinality(ActiveAncestors(nodes, out.buying_partner_id)))

\* The records returned for a purchase of 1000 by B on network n: chain =
\* get_upline_chain(B), then calculate_purchase_commissions on a new
\* calculator with the default rates.
PurchaseFrom(n, B) ==
    calculate_purchase_commissions(DEFAULT_COMMISSION_RATES, <<>>, 1, 1000, B,
        get_upline_chain(n, B, NET_MAX_LEVELS)).calculated

\* C12: in every network state reachable through add_partner,
\* deactivate_partner and reactivate_partner, a purchase by a registered
\* partner B gives no partner more than one commission record and gives B
\* none.
C12_NoDoubleCompensation ==
    \A B \in DOMAIN nodes :
        LET records == PurchaseFrom(nodes, B)
        IN  /\ \A i, j \in 1..Len(records) :
                  i # j => records[i].partner_id # records[j].partner_id
            /\ \A i \in 1..Len(records) : records[i].partner_id # B

\* C13: reactivate_partner(X) changes only X's is_active flag: the node set
\* and every node's upline_id and downline_ids are the same before and after
\* the call, and so is every other node's is_active; children re-parented
\* away from X by an earlier compression are not returned to X.
C13_ReactivateKeepsStructure ==
    [][ last'.op = "reactivate_partner" =>
          /\ DOMAIN nodes' = DOMAIN nodes
          /\ \A p \in DOMAIN nodes :
                /\ nodes'[p].partner_id = nodes[p].partner_id
                /\ nodes'[p].upline_id = nodes[p].upline_id
                /\ nodes'[p].downline_ids = nodes[p].downline_ids
                /\ p # last'.partner_id =>
                       nodes'[p].is_active = nodes[p].is_active
      ]_vars

\* C13 witness: X has been reactivated and is active with no children, while
\* its upline holds X and another partner as direct children (the shape a
\* compression of X leaves).
C13_Witness ==
    /\ last.op = "reactivate_partner"
    /\ last.ret = TRUE
    /\ nodes[last.partner_id].is_active
    /\ nodes[last.partner_id].downline_ids = <<>>
    /\ nodes[last.partner_id].upline_id # None
    /\ Len(nodes[nodes[last.partner_id].upline_id].downline_ids) >= 2

\* The partner ids listed by get_upline_chain(D) with the default max_levels.
ChainIds(n, D) ==
    LET chain == get_upline_chain(n, D, NET_MAX_LEVELS)
    IN  {chain[i][1] : i \in 1..Len(chain)}

\* C14: after deactivate_partner(X, compress=true) has returned true, X never
\* again appears in get_upline_chain(D) of any partner D that was a
\* descendant of X at that moment, whatever calls follow.  Stated step by
\* step: (a) the call itself takes X out of the ancestors, and out of the
\* chain, of every descendant D of X; (b) no call ever gives a registered
\* partner an ancestor it did not have before the call, so X cannot come
\* back; (c) get_upline_chain(D) lists ancestors of D only.  (b) and (c)
\* are read off the calls that change _nodes: a call that leaves _nodes as
\* it was leaves every chain as it was.
C14_CompressedNodeLeavesChains ==
    [][ /\ (/\ last'.op = "deactivate_partner"
            /\ last'.arg = TRUE
            /\ last'.ret = TRUE
            /\ ~hung')
           => LET X == last'.partner_id
              IN  \A D \in DOMAIN nodes :
                     X \in Ancestors(nodes, D) =>
                        /\ X \notin Ancestors(nodes', D)
                        /\ X \notin ChainIds(nodes', D)
        /\ nodes' # nodes =>
              /\ \A D \in DOMAIN nodes :
                    Ancestors(nodes', D) \subseteq Ancestors(nodes, D)
              /\ \A D \in DOMAIN nodes' :
                    ChainIds(nodes', D) \subseteq Ancestors(nodes', D)
      ]_vars

\* C14 witness: a compressing deactivation of X has returned true, the child
\* it moved has a child D of its own, and X is not in D's chain.
C14_Witness ==
    /\ ~hung
    /\ last.op = "deactivate_partner"
    /\ last.arg = TRUE
    /\ last.ret = TRUE
    /\ last.log # <<>>
    /\ nodes[last.log[1][1]].downline_ids # <<>>
    /\ last.partner_id \notin
           ChainIds(nodes, nodes[last.log[1][1]].downline_ids[1])

\* C15: every call of deactivate_partner and get_upline_chain terminates in
\* every network state reachable through the public operations: no call is
\* ever caught in the upward walk for the nearest active ancestor.
\* (get_upline_chain is a total operator here: its loop adds an entry on
\* every pass and stops at max_levels entries.)
C15_CallsTerminate == ~hung

\* C16: add_partner(partner_id, upline_id) with a partner_id that is already
\* registered returns false and leaves the whole network state (node set,
\* every upline_id, downline_ids and is_active) unchanged, even when
\* upline_id is unknown.
C16_DuplicateAddRejected ==
    [][ (/\ last'.op = "add_partner"
         /\ last'.partner_id \in DOMAIN nodes)
        => /\ last'.ret = FALSE
           /\ nodes' = nodes
      ]_vars

\* C16 witness: a duplicate add_partner naming an unregistered upline has
\* returned false.
C16_Witness ==
    /\ last.op = "add_partner"
    /\ last.ret = FALSE
    /\ last.partner_id \in DOMAIN nodes
    /\ last.arg # None
    /\ last.arg \notin DOMAIN nodes

\* C17: deactivate_partner and reactivate_partner on an unregistered
\* partner_id return false and leave the network state unchanged;
\* get_upline_chain on an unregistered partner_id returns the empty list.
C17_UnknownPartnerRejected ==
    [][ /\ (/\ last'.op \in {"deactivate_partner", "reactivate_partner"}
            /\ last'.partner_id \notin DOMAIN nodes)
           => /\ last'.ret = FALSE
              /\ nodes' = nodes
              /\ hung' = hung
        /\ \A p \in PartnerIds \ DOMAIN nodes' :
              get_upline_chain(nodes', p, NET_MAX_LEVELS) = <<>>
      ]_vars

\* C17 witness: a network with registered partners has rejected a
\* compressing deactivate_partner on an unregistered id.
C17_Witness ==
    /\ last.op = "deactivate_partner"
    /\ last.arg = TRUE
    /\ last.ret = FALSE
    /\ last.partner_id \notin DOMAIN nodes
    /\ DOMAIN nodes # {}
    /\ ~hung

\* ------------------------------------------------------------------------
\* Further properties of the calculator (SpecCalc, SpecPurchase)
\* ------------------------------------------------------------------------

\* C18: approve_commission(id) and mark_as_paid(id) with an id that matches
\* no stored record return false and leave the stored collection (its length
\* and every record's fields, status included) unchanged.
C18_UnknownIdRejected ==
    [][ (/\ out'.op \in {"approve_commission", "mark_as_paid"}
         /\ \A i \in 1..Len(commissions) :
               commissions[i].commission_id # out'.commission_id)
        => /\ out'.ret = FALSE
           /\ commissions' = commissions
           /\ next_commission_id' = next_commission_id
      ]_vars

\* C18 witness: mark_as_paid with an id no stored record carries has
\* returned false on a calculator that stores records.
C18_Witness ==
    /\ out.op = "mark_as_paid"
    /\ out.ret = FALSE
    /\ commissions # <<>>
    /\ \A i \in 1..Len(commissions) :
          commissions[i].commission_id # out.commission_id

\* The fields of the records two calls are compared on: all but
\* commission_id (and the timestamp).
Strip(records) ==
    [i \in 1..Len(records) |->
        [partner_id        |-> records[i].partner_id,
         source_partner_id |-> records[i].source_partner_id,
         level             |-> records[i].level,
         amount            |-> records[i].amount,
         base_amount       |-> records[i].base_amount,
         rate              |-> records[i].rate,
         status            |-> records[i].status,
         compressed        |-> records[i].compressed,
         notes             |-> records[i].notes]]

\* C19: two calls of calculate_purchase_commissions with the same purchase
\* amount, buyer and chain, on calculators with the same rate table in any
\* prior state, return lists of the same length that agree position by
\* position on every field but commission_id: whatever the calculator
\* already stores, the list returned equals, on those fields, the list the
\* same call returns on a newly constructed calculator with that rate table.
C19_SameInputsSameRecords ==
    Purchased =>
        Strip(out.ret) =
            Strip(calculate_purchase_commissions(commission_rates, <<>>, 1,
                      out.purchase_amount, out.buying_partner_id,
                      out.upline_chain).calculated)

\* C19 witness: a calculator that already stored a record has returned two
\* or more records, one of them compressed, with ids that do not start at 1.
C19_Witness ==
    /\ Purchased
    /\ Len(commissions) > Len(out.ret)
    /\ Len(out.ret) >= 2
    /\ out.ret[1].commission_id # 1
    /\ \E i \in 1..Len(out.ret) : out.ret[i].compressed

\* C20: every CommissionRecord ever stored has level in 1..5, rate equal to
\* the rate table's entry for that level, base_amount equal to the purchase
\* amount of the call that created it, and amount = base_amount * rate / 100
\* (hence non-negative for a non-negative purchase amount).  On every call:
\* the records already stored stay stored, the records the call appends are
\* the ones it returns and carry its purchase amount as base_amount, and
\* every stored record satisfies the level, rate and amount relations.
C20_StoredRecordsWellFormed ==
    [][ out'.op = "calculate_purchase_commissions" =>
          /\ commissions' = commissions \o out'.ret
          /\ \A i \in 1..Len(out'.ret) :
                out'.ret[i].base_amount = ToDecimal(out'.purchase_amount)
          /\ \A i \in 1..Len(commissions') :
                LET c == commissions'[i]
                IN  /\ c.level \in 1..MAX_LEVELS
                    /\ c.level \in DOMAIN commission_rates
                    /\ c.rate = commission_rates[c.level]
                    /\ c.amount * 100 = c.base_amount * c.rate
                    /\ c.base_amount >= 0 => c.amount >= 0
      ]_vars

\* C20 witness: a purchase of 1 unit has stored five records, one of them
\* compressed, after an earlier purchase of 1000: the level-5 record pays
\* 0.05 on a base of 1.00.
C20_Witness ==
    /\ Purchased
    /\ out.purchase_amount = 1
    /\ Len(out.ret) = MAX_LEVELS
    /\ Len(commissions) > Len(out.ret)
    /\ \E i \in 1..Len(out.ret) : out.ret[i].compressed
    /\ commissions[Len(commissions)].amount = 5
    /\ commissions[Len(commissions)].base_amount = 100

\* ------------------------------------------------------------------------
\* Further properties of the network (SpecNet)
\* ------------------------------------------------------------------------

\* C21: add_partner(P, U) with U given and neither P nor U registered
\* returns true and leaves U registered as an active root (upline_id None)
\* whose downline_ids is [P], P registered as active with upline_id U and no
\* children, and every other node as it was.
C21_AutoRegistersUplineAsRoot ==
    [][ (/\ last'.op = "add_partner"
         /\ last'.arg # None
         /\ last'.arg \notin DOMAIN nodes
         /\ last'.partner_id \notin DOMAIN nodes)
        => LET P == last'.partner_id
               U == last'.arg
           IN  /\ last'.ret = TRUE
               /\ DOMAIN nodes' = DOMAIN nodes \cup {P, U}
               /\ nodes'[U].upline_id = None
               /\ nodes'[U].is_active
               /\ nodes'[U].downline_ids = <<P>>
               /\ nodes'[P].upline_id = U
               /\ nodes'[P].is_active
               /\ \A q \in DOMAIN nodes : nodes'[q] = nodes[q]
      ]_vars

\* ------------------------------------------------------------------------
\* Properties of the status expiry (SpecExpiry)
\* ------------------------------------------------------------------------

\* C22: when the scheduled status expiry changes a partner from ACTIVE to
\* INACTIVE, the partner is also deactivated in the NetworkManager: after
\* the job the network's is_active flag of that partner is false.
C22_ExpiryDeactivatesInNetwork ==
    [][ \A p \in DOMAIN db_partners :
          (/\ db_partners[p].status = "active"
           /\ db_partners'[p].status = "inactive"
           /\ p \in DOMAIN nodes')
          => ~nodes'[p].is_active
      ]_vars

\* ------------------------------------------------------------------------
\* Properties of one purchase under other plans (SpecPurchase)
\* ------------------------------------------------------------------------

AllActive(chain) == \A i \in 1..Len(chain) : chain[i][2]

Levels(records) == {records[i].level : i \in 1..Len(records)}

\* C23: the rate table and the maximum number of levels are injected per
\* calculator: every record carries the injected rate of its level, and the
\* levels filled are bounded by the injected plan, not by a fixed 5: on a
\* chain of active partners a calculator constructed with a plan of N levels
\* fills every level of the plan that the chain reaches.
C23_LevelsFollowInjectedPlan ==
    Purchased =>
        /\ \A i \in 1..Len(out.ret) :
              out.ret[i].rate = commission_rates[out.ret[i].level]
        /\ AllActive(out.upline_chain) =>
              Levels(out.ret) =
                  {l \in DOMAIN commission_rates : l <= Len(out.upline_chain)}

DistinctIds(chain) ==
    \A i, j \in 1..Len(chain) : i # j => chain[i][1] # chain[j][1]

\* The levels within MAX_LEVELS that the rate table has no entry for.
MissingLevels(rates) == (1..MAX_LEVELS) \ DOMAIN rates

\* C24: with a rate table that lacks an entry for a structural level L, the
\* call emits no record for L, still advances to level L + 1 and emits the
\* records of the later levels that have a rate, each to the entry found
\* after the entries consumed so far; the entries consumed while filling L
\* (from the one read first up to the beneficiary it would have had) receive
\* nothing from this call.
C24_MissingRateSkipsLevel ==
    Purchased =>
      LET chain == out.upline_chain
          missing == MissingLevels(commission_rates)
      IN  /\ \A i \in 1..Len(out.ret) : out.ret[i].level \notin missing
          /\ \A L \in missing :
               /\ \A l \in (L + 1)..MAX_LEVELS :
                     (/\ l \in DOMAIN commission_rates
                      /\ BeneficiaryAt(chain, l) <= Len(chain))
                     => \E i \in 1..Len(out.ret) :
                           /\ out.ret[i].level = l
                           /\ out.ret[i].partner_id =
                                  chain[BeneficiaryAt(chain, l)][1]
               /\ DistinctIds(chain) =>
                     \A p \in ReadAt(chain, L)..Min(BeneficiaryAt(chain, L),
                                                    Len(chain)) :
                        \A i \in 1..Len(out.ret) :
                           out.ret[i].partner_id # chain[p][1]

\* C24 witness: with no rate for level 2, the example chain paid level 1 to
\* A and level 3 to D; B (inactive) and C (found for level 2) got nothing.
C24_Witness ==
    /\ Purchased
    /\ commission_rates = NoLevel2Rates
    /\ out.upline_chain = ScenarioA
    /\ Payouts(out.ret) = << <<1, 1, FALSE>>, <<4, 3, FALSE>> >>

\* ------------------------------------------------------------------------
\* Further properties of sequences of calculator calls (SpecCalc)
\* ------------------------------------------------------------------------

\* A record without its status.
Unchanging(c) == [f \in (DOMAIN c) \ {"status"} |-> c[f]]

\* C25: stored records are never removed and, after creation, none of their
\* fields other than status ever changes: on every calculator operation the
\* stored collection keeps its records in place and only grows at its end,
\* and only approve_commission and mark_as_paid modify an existing record.
C25_RecordsOnlyChangeStatus ==
    [][ /\ Len(commissions') >= Len(commissions)
        /\ \A i \in 1..Len(commissions) :
              /\ Unchanging(commissions'[i]) = Unchanging(commissions[i])
              /\ commissions'[i] # commissions[i] =>
                    out'.op \in {"approve_commission", "mark_as_paid"}
      ]_vars

\* C25 witness: approve_commission has changed one of several stored
\* records while another is still pending.
C25_Witness ==
    /\ out.op = "approve_commission"
    /\ out.ret = TRUE
    /\ Len(commissions) >= 2
    /\ \E i \in 1..Len(commissions) :
          /\ commissions[i].commission_id = out.commission_id
          /\ commissions[i].status = "approved"
    /\ \E i \in 1..Len(commissions) : commissions[i].status = "pending"

\* ------------------------------------------------------------------------
\* Frame of deactivation (SpecNet)
\* ------------------------------------------------------------------------

Elements(seq) == {seq[i] : i \in 1..Len(seq)}

\* C26: structural compression triggered by deactivate_partner(X,
\* compress=true) leaves X's own upline_id unchanged and leaves X listed in
\* its parent's downline_ids; it empties X's downline_ids and changes no
\* node other than X, X's former direct children and the chosen new parent.
C26_CompressionFrame ==
    [][ (/\ last'.op = "deactivate_partner"
         /\ last'.arg = TRUE
         /\ last'.ret = TRUE
         /\ ~hung')
        => LET X == last'.partner_id
               children == Elements(nodes[X].downline_ids)
               A == NearestActiveAncestor(nodes, X)
           IN  /\ nodes'[X].upline_id = nodes[X].upline_id
               /\ nodes[X].upline_id # None =>
                     X \in Elements(nodes'[nodes[X].upline_id].downline_ids)
               /\ nodes'[X].downline_ids = <<>>
               /\ DOMAIN nodes' = DOMAIN nodes
               /\ \A q \in DOMAIN nodes \ (IF children = {} THEN {X}
                                           ELSE {X, A} \cup children) :
                     nodes'[q] = nodes[q]
      ]_vars

\* C26 witness: X, a child of an active partner, has been deactivated with
\* compression; its child now stands next to X in that partner's
\* downline_ids and X still has that partner as upline_id.
C26_Witness ==
    /\ ~hung
    /\ last.op = "deactivate_partner"
    /\ last.arg = TRUE
    /\ last.ret = TRUE
    /\ last.log # <<>>
    /\ last.log[1][2] # None
    /\ nodes[last.partner_id].upline_id = last.log[1][2]
    /\ {last.partner_id, last.log[1][1]}
           \subseteq Elements(nodes[last.log[1][2]].downline_ids)

\* C27: deactivate_partner(X, compress=false) on a registered X, and
\* deactivate_partner(X, compress=true) on a registered X with no children,
\* return true and change only X's is_active flag, to false: every
\* upline_id and downline_ids in the network is unchanged.
C27_PlainDeactivationFrame ==
    [][ (/\ last'.op = "deactivate_partner"
         /\ last'.partner_id \in DOMAIN nodes
         /\ (last'.arg = FALSE \/ nodes[last'.partner_id].downline_ids = <<>>))
        => LET X == last'.partner_id
           IN  /\ last'.ret = TRUE
               /\ ~hung'
               /\ DOMAIN nodes' = DOMAIN nodes
               /\ ~nodes'[X].is_active
               /\ \A q \in DOMAIN nodes :
                     /\ nodes'[q].upline_id = nodes[q].upline_id
                     /\ nodes'[q].downline_ids = nodes[q].downline_ids
                     /\ q # X => nodes'[q].is_active = nodes[q].is_active
      ]_vars

\* C27 witness: a partner with children has been deactivated with
\* compress=false and its children still have it as upline_id.
C27_Witness ==
    /\ last.op = "deactivate_partner"
    /\ last.arg = FALSE
    /\ last.ret = TRUE
    /\ ~nodes[last.partner_id].is_active
    /\ nodes[last.partner_id].downline_ids # <<>>
    /\ \A c \in Elements(nodes[last.partner_id].downline_ids) :
          c # last.partner_id /\ nodes[c].upline_id = last.partner_id

\* ------------------------------------------------------------------------
\* Queries on the network (SpecNet)
\* ------------------------------------------------------------------------

\* Values of max_levels handed to get_upline_chain.
MaxLevelsArgs == {0, 1, 2, NET_MAX_LEVELS}

\* C28: for a registered partner P, get_upline_chain(P, max_levels) returns
\* the successive ancestors of P in order, starting with P's direct upline,
\* each paired with its current is_active flag, and its length is
\* min(max_levels, number of ancestors of P).
C28_ChainListsAncestorsInOrder ==
    \A P \in DOMAIN nodes : \A m \in MaxLevelsArgs :
        LET chain == get_upline_chain(nodes, P, m)
        IN  /\ Len(chain) = Min(m, Cardinality(Ancestors(nodes, P)))
            /\ \A i \in 1..Len(chain) :
                  /\ chain[i][1] = UplineAfter(nodes, P, i)
                  /\ chain[i][2] = nodes[chain[i][1]].is_active

\* C29: the set of registered partner ids never shrinks: no NetworkManager
\* operation removes a node, and a deactivated partner stays registered,
\* only out of the active ids.
C29_PartnersNeverRemoved ==
    [][ /\ get_all_partner_ids(nodes) \subseteq get_all_partner_ids(nodes')
        /\ get_active_partner_ids(nodes') \subseteq get_all_partner_ids(nodes')
        /\ (/\ last'.op = "deactivate_partner"
            /\ last'.partner_id \in get_all_partner_ids(nodes))
           => /\ last'.partner_id \in get_all_partner_ids(nodes')
              /\ last'.partner_id \notin get_active_partner_ids(nodes')
      ]_vars

\* C29 witness: after a compressing deactivation every partner is
\* registered and none is active.
C29_Witness ==
    /\ last.op = "deactivate_partner"
    /\ last.ret = TRUE
    /\ last.log # <<>>
    /\ get_all_partner_ids(nodes) = PartnerIds
    /\ get_active_partner_ids(nodes) = {}

\* ------------------------------------------------------------------------
\* The calculator against a reference (SpecPurchase)
\* ------------------------------------------------------------------------

\* The position in chain of its k-th active entry (Len(chain) + 1 when it
\* has fewer than k).
RECURSIVE KthActive(_, _)
KthActive(chain, k) ==
    IF k = 0 THEN 0 ELSE FirstActiveAfter(chain, KthActive(chain, k - 1))

NumActive(chain) == Cardinality({i \in 1..Len(chain) : chain[i][2]})

\* The reference: the k-th active entry of the chain receives level k, for
\* k = 1..min(5, number of active entries), compressed exactly when the
\* entry immediately before it in the chain is inactive.
Reference(chain) ==
    [k \in 1..Min(MAX_LEVELS, NumActive(chain)) |->
        LET p == KthActive(chain, k)
        IN  <<chain[p][1], k, p > 1 /\ ~chain[p - 1][2]>>]

\* C30: for every chain and the default rate table,
\* calculate_purchase_commissions returns exactly the records of the
\* reference, in increasing level order with no gap in levels.
C30_MatchesReference ==
    (Purchased /\ commission_rates = DEFAULT_COMMISSION_RATES)
    => Payouts(out.ret) = Reference(out.upline_chain)

\* C30 witness: a chain of six entries that begins and ends with an
\* inactive one has paid exactly three levels under the default table.
C30_Witness ==
    /\ Purchased
    /\ commission_rates = DEFAULT_COMMISSION_RATES
    /\ Len(out.upline_chain) = 6
    /\ ~out.upline_chain[1][2]
    /\ ~out.upline_chain[6][2]
    /\ Len(out.ret) = 3
    /\ \E i \in 1..Len(out.ret) : ~out.ret[i].compressed

\* ------------------------------------------------------------------------
\* Structural invariants of the network (SpecNet)
\* ------------------------------------------------------------------------

\* How many times C occurs in the list seq.
Occurrences(seq, C) == Cardinality({i \in 1..Len(seq) : seq[i] = C})

\* C31: in every reachable NetworkManager state the parent and child links
\* agree: for all registered nodes C and P, C.upline_id = P if and only if C
\* occurs in P.downline_ids, and then C occurs there exactly once.
C31_LinksAgree ==
    \A C \in DOMAIN nodes : \A P \in DOMAIN nodes :
        /\ (nodes[C].upline_id = P) <=> (Occurrences(nodes[P].downline_ids, C) > 0)
        /\ Occurrences(nodes[P].downline_ids, C) <= 1

\* C31 witness: after a compressing deactivation, a partner holds two
\* children of which one was moved to it, and X, still its child, has none.
C31_Witness ==
    /\ ~hung
    /\ last.op = "deactivate_partner"
    /\ last.arg = TRUE
    /\ last.log # <<>>
    /\ last.log[1][2] # None
    /\ Len(nodes[last.log[1][2]].downline_ids) = 2
    /\ nodes[last.log[1][1]].upline_id = last.log[1][2]
    /\ nodes[last.partner_id].downline_ids = <<>>

\* C32: in every reachable NetworkManager state every non-None upline_id and
\* every id in any downline_ids refers to a registered node, so the lookups
\* of _compress_upward and _find_nearest_active_upline never hit a missing
\* key.
C32_LinksAreRegistered ==
    \A p \in DOMAIN nodes :
        /\ nodes[p].upline_id # None => nodes[p].upline_id \in DOMAIN nodes
        /\ Elements(nodes[p].downline_ids) \subseteq DOMAIN nodes

\* add_partner has just auto-registered a missing upline as a root and hung
\* the new partner under it.
C32_Witness ==
    /\ last.op = "add_partner"
    /\ last.ret = TRUE
    /\ last.arg # None
    /\ last.arg # last.partner_id
    /\ nodes[last.arg].upline_id = None
    /\ nodes[last.arg].downline_ids = <<last.partner_id>>
    /\ nodes[last.partner_id].upline_id = last.arg
    /\ Cardinality(DOMAIN nodes) = 2

\* ------------------------------------------------------------------------
\* The network when every deactivation compresses (SpecCompress)
\* ------------------------------------------------------------------------

\* The calls of NextNet with deactivate_partner's compress left at its
\* default, True.
NextCompress ==
    \/ \E p \in PartnerIds, u \in PartnerIds \cup {None} : add_partner(p, u)
    \/ \E p \in PartnerIds : deactivate_partner(p, TRUE)
    \/ \E p \in PartnerIds : reactivate_partner(p)

SpecCompress == InitNet /\ [][NextCompress]_vars

\* No inactive partner has children.
NoInactiveParent ==
    \A p \in DOMAIN nodes :
        ~nodes[p].is_active => nodes[p].downline_ids = <<>>

ACTIVE == "active"
INACTIVE == "inactive"
SUSPENDED == "suspended"
TERMINATED == "terminated"
PartnerStatus == {ACTIVE, INACTIVE, SUSPENDED, TERMINATED}

\* Partner(partner_id, ..., upline_id): status defaults to ACTIVE.  Names,
\* dates and totals play no part in the status logic.
Partner(partner_id, upline_id) ==
    [partner_id |-> partner_id, upline_id |-> upline_id, status |-> ACTIVE]

\* Partner.is_active
PartnerIsActive(partner) == partner.status = ACTIVE

\* NetworkManager.is_active(partner_id): False for an unknown partner.
is_active(n, partner_id) ==
    IF partner_id \in DOMAIN n THEN n[partner_id].is_active ELSE FALSE

\* PartnerManager.register_partner: an id already registered is returned as
\* it is; otherwise the Partner is stored and the network is told.
register_partner(partner_id, upline_id) ==
    /\ ~hung
    /\ IF partner_id \in DOMAIN partners
       THEN UNCHANGED <<partners, netVars>>
       ELSE /\ partners' = DictSet(partners, partner_id,
                                   Partner(partner_id, upline_id))
            /\ Delivered("add_partner", partner_id, upline_id,
                         AddPartner(nodes, partner_id, upline_id))
    /\ UNCHANGED <<calcVars, dbVars>>

\* PartnerManager.update_status: the status is stored first, then the network
\* is told of INACTIVE and TERMINATED (deactivate_partner, compress left at
\* its default) and of a return to ACTIVE (reactivate_partner).
update_status(partner_id, new_status) ==
    /\ ~hung
    /\ IF partner_id \notin DOMAIN partners
       THEN UNCHANGED <<partners, netVars>>
       ELSE LET old_status == partners[partner_id].status
            IN  /\ partners' = [partners EXCEPT ![partner_id].status = new_status]
                /\ IF new_status \in {INACTIVE, TERMINATED}
                   THEN Delivered("deactivate_partner", partner_id, TRUE,
                                  DeactivatePartner(nodes, partner_id, TRUE))
                   ELSE IF new_status = ACTIVE /\ old_status # ACTIVE
                   THEN Delivered("reactivate_partner", partner_id, None,
                                  ReactivatePartner(nodes, partner_id))
                   ELSE UNCHANGED netVars
    /\ UNCHANGED <<calcVars, dbVars>>

\* PartnerManager(network_manager=NetworkManager()): nothing registered.
InitManager == InitNet

NextManager ==
    \/ \E p \in PartnerIds, u \in PartnerIds \cup {None} : register_partner(p, u)
    \/ \E p \in PartnerIds, st \in PartnerStatus : update_status(p, st)

SpecManager == InitManager /\ [][NextManager]_vars

DeactivateBoth(n, X, Y) ==
    LET first == DeactivatePartner(n, X, TRUE)
    IN  IF first.returns THEN DeactivatePartner(first.nodes, Y, TRUE)
        ELSE first

\* The parent of every node and the set of children of every node.
Shape(n) ==
    [p \in DOMAIN n |->
        [upline_id |-> n[p].upline_id, children |-> Elements(n[p].downline_ids)]]

\* C35: deactivating two distinct partners X and Y with compress=true gives
\* the same upline_id for every node and the same set of children for every
\* node whichever of the two is deactivated first, from any reachable state.
C35_DeactivationsCommute ==
    ~hung =>
        \A X \in DOMAIN nodes : \A Y \in DOMAIN nodes \ {X} :
            LET xy == DeactivateBoth(nodes, X, Y)
                yx == DeactivateBoth(nodes, Y, X)
            IN  /\ xy.returns <=> yx.returns
                /\ (xy.returns /\ yx.returns) => Shape(xy.nodes) = Shape(yx.nodes)

\* An active partner X with an active child Y that has a child of its own:
\* both orders compress twice and return, and the first call leaves a
\* different graph in each order.
C35_Witness ==
    /\ ~hung
    /\ \E X \in DOMAIN nodes : \E Y \in DOMAIN nodes \ {X} :
          /\ nodes[X].is_active /\ nodes[Y].is_active
          /\ nodes[Y].upline_id = X
          /\ nodes[Y].downline_ids # <<>>
          /\ DeactivateBoth(nodes, X, Y).returns
          /\ DeactivateBoth(nodes, Y, X).returns
          /\ Shape(DeactivatePartner(nodes, X, TRUE).nodes)
                 # Shape(DeactivatePartner(nodes, Y, TRUE).nodes)
          /\ Shape(DeactivateBoth(nodes, X, Y).nodes) # Shape(nodes)

\* The last call was deactivate_partner(X, compress=true) and it returned
\* true.
DeactivatedWithCompress ==
    /\ ~hung
    /\ last.op = "deactivate_partner"
    /\ last.arg = TRUE
    /\ last.ret = TRUE

\* C36: deactivate_partner is idempotent: calling deactivate_partner(X,
\* compress=true) a second time immediately after a first successful call
\* returns true and leaves the network state exactly as the first call left
\* it.
C36_DeactivateIdempotent ==
    DeactivatedWithCompress =>
        LET again == DeactivatePartner(nodes, last.partner_id, TRUE)
        IN  /\ again.returns
            /\ again.ret = TRUE
            /\ again.nodes = nodes

\* The first call moved a child of X to an active ancestor; the second call
\* finds X inactive and childless.
C36_Witness ==
    /\ DeactivatedWithCompress
    /\ Len(last.log) = 1
    /\ last.log[1][2] # None
    /\ ~nodes[last.partner_id].is_active
    /\ DeactivatePartner(nodes, last.partner_id, TRUE).log = <<>>

\* ------------------------------------------------------------------------
\* Frame of calculate_purchase_commissions (SpecCalc)
\* ------------------------------------------------------------------------

====
